---- MODULE Spec2Model ----
(***************************************************************************)
(* Model of the resolution engine of game-recipe-calc                      *)
(* (src/src/logic/evaluation/mod.rs): Context::new, try_use_item,          *)
(* have_or_craft_item, evaluate_recipe, register_need_item, cleanup,       *)
(* get_needed_items and evaluate.  The recursion of have_or_craft_item and *)
(* evaluate_recipe is unfolded into an explicit call stack; one action per *)
(* stretch of code between two calls.                                      *)
(*                                                                         *)
(* u64 quantities are kept as residues modulo 2^64 in a window around 0:   *)
(* a value v >= 0 stands for itself, a value v < 0 stands for 2^64 + v     *)
(* (what a wrapping subtraction leaves in a build without overflow         *)
(* checks).  A build with overflow checks panics instead.                  *)
(***************************************************************************)
EXTENDS Integers, Sequences, FiniteSets, TLC

\* ------------------------------------------------------------------ bounds

\* Context::MAX_DEPTH
MAX_DEPTH == 128

\* item names of the small programs: 1 < 2 < 3 in the order of their names
NumItems == 3
\* counts of the small programs range over 0..MaxCount
MaxCount == 2
\* a need count above MAX_DEPTH is MAX_DEPTH + BigExtra
BigExtra == 2
\* a map entry above MAX_DEPTH + BigExtra + MaxQtySlack stops the model
MaxQtySlack == 4

Items == 1..NumItems
Counts == 0..MaxCount
MaxQty == MAX_DEPTH + BigExtra + MaxQtySlack

\* ------------------------------------------------------------ data model

\* ItemStack { count, item }
ItemStack(c, i) == [count |-> c, item |-> i]

\* Recipe { output, inputs }
Recipe(out, ins) == [output |-> out, inputs |-> ins]

Stacks(items, counts) == {ItemStack(c, i) : c \in counts, i \in items}

SeqsUpTo(S, n) == UNION {[1..k -> S] : k \in 0..n}

\* Program { need_section, have_section, recipe_section }
Program(n, h, r) == [need_section |-> n, have_section |-> h, recipe_section |-> r]

\* --------------------------------------------------------- u64 arithmetic

\* a < b on u64 values (a negative residue is a value near 2^64)
ULt(a, b) == IF (a < 0) = (b < 0) THEN a < b ELSE b < 0

\* u64::saturating_sub
SaturatingSub(a, c) == IF ULt(a, c) THEN 0 ELSE a - c

\* ------------------------------------------------------------- HashMap

\* HashMap::get(..).cloned().unwrap_or_default()
Get(m, k) == IF k \in DOMAIN m THEN m[k] ELSE 0

\* *map.entry(k).or_default() = v
Put(m, k, v) == [x \in (DOMAIN m) \cup {k} |-> IF x = k THEN v ELSE m[x]]

\* HashMap::retain(|_, v| *v != 0)
RetainNonZero(m) == [x \in {k \in DOMAIN m : m[k] # 0} |-> m[x]]

EmptyMap == [x \in {} |-> 0]

\* ------------------------------------------------------------ the Context

VARIABLES
    program,          \* the Program given to evaluate
    build,            \* "debug": overflow checks and debug_assert on; "release": off
    items_available,  \* Context.items_available
    items_output,     \* Context.items_output
    items_needed,     \* Context.items_needed
    recipes,          \* Context.recipes
    depth,            \* Context.depth
    need_idx,         \* evaluate: index of the next need line of the for loop
    stack,            \* call stack below evaluate, innermost frame last
    status,           \* "new", "running", "ok", "err", "panic", "limit" for
                      \* evaluate; "text", "parsed", "returned" for the parser
    result,           \* what evaluate returned to its caller
    input,            \* the text given to Program::parse_from_string
    parsed,           \* what parsing::program returned
    parse_result      \* what parse_from_string returned to its caller

vars == <<program, build, items_available, items_output, items_needed, recipes,
          depth, need_idx, stack, status, result, input, parsed, parse_result>>

ctx == <<items_available, items_output, items_needed, recipes, depth>>

\* mutant of NewAvailable: a have line replaces the entry instead of adding to it
NewAvailableOverwrite(have) ==
    LET F[k \in 0..Len(have)] ==
            IF k = 0 THEN EmptyMap
            ELSE Put(F[k - 1], have[k].item, have[k].count)
    IN F[Len(have)]

\* Context::new, lines 33-35: the have lines are summed per item
NewAvailable(have) ==
    LET F[k \in 0..Len(have)] ==
            IF k = 0 THEN EmptyMap
            ELSE Put(F[k - 1], have[k].item, Get(F[k - 1], have[k].item) + have[k].count)
    IN F[Len(have)]

\* the last recipe of the section for item i
LastRecipe(recipe_section, i) ==
    LET of == {k \in DOMAIN recipe_section : recipe_section[k].output.item = i}
    IN recipe_section[CHOOSE k \in of : \A j \in of : j <= k]

\* mutant of NewRecipes: a recipe is only inserted when its item has none yet
NewRecipesKeepFirst(recipe_section) ==
    LET of(i) == {k \in DOMAIN recipe_section : recipe_section[k].output.item = i}
    IN [i \in {recipe_section[k].output.item : k \in DOMAIN recipe_section} |->
            recipe_section[CHOOSE k \in of(i) : \A j \in of(i) : k <= j]]

\* Context::new, lines 37-45: HashMap::insert keyed by the output item, in
\* the order of the section; an insert replaces the recipe the item had, so
\* each output item ends with the last of its recipes
NewRecipes(recipe_section) ==
    [i \in {recipe_section[k].output.item : k \in DOMAIN recipe_section} |->
        LastRecipe(recipe_section, i)]

\* Context::add_items: the new items_available
AddItems(available, items) ==
    Put(available, items.item, Get(available, items.item) + items.count)

\* mutant of TryUseItem: the count still needed is computed, the stock is not
\* taken
TryUseItemKeepStock(available, items) ==
    IF items.item \in DOMAIN available
    THEN LET old_count == available[items.item]
             stored_count == SaturatingSub(old_count, items.count)
             used == old_count - stored_count
         IN [available |-> available, remaining |-> items.count - used]
    ELSE [available |-> available, remaining |-> items.count]

\* Context::try_use_item: the new items_available and the count still needed
TryUseItem(available, items) ==
    IF items.item \in DOMAIN available
    THEN LET old_count == available[items.item]
             stored_count == SaturatingSub(old_count, items.count)
             used == old_count - stored_count
         IN [available |-> Put(available, items.item, stored_count),
             remaining |-> items.count - used]
    ELSE [available |-> available, remaining |-> items.count]

\* Context::register_need_item: the new items_available and items_needed
RegisterNeedItem(available, needed, item) ==
    LET t == TryUseItem(available, item)
    IN [available |-> t.available,
        needed |-> Put(needed, item.item, Get(needed, item.item) + t.remaining)]

\* mutant of CleanupAvailable: the retain call on items_available is left out
CleanupAvailableKeepAll(available) == available

\* Context::cleanup, lines 162-163
CleanupNeeded(needed) == RetainNonZero(needed)
CleanupAvailable(available) == RetainNonZero(available)

\* Context::cleanup, line 165: the condition of the debug_assert
CleanupAssertion(output) == ~ \E k \in DOMAIN output : output[k] = 0

\* mutant of SortedKeys: the comparison of sort_by is reversed
RECURSIVE SortedKeysReversed(_)
SortedKeysReversed(S) ==
    IF S = {} THEN <<>>
    ELSE LET hi == CHOOSE x \in S : \A y \in S : x >= y
         IN <<hi>> \o SortedKeysReversed(S \ {hi})

\* the keys of a map in increasing order of item name
RECURSIVE SortedKeys(_)
SortedKeys(S) ==
    IF S = {} THEN <<>>
    ELSE LET lo == CHOOSE x \in S : \A y \in S : x <= y
         IN <<lo>> \o SortedKeys(S \ {lo})

\* Context::get_needed_items: the entries of a map, sorted by item name
SortedStacks(m) ==
    LET keys == SortedKeys(DOMAIN m)
    IN [k \in 1..Len(keys) |-> ItemStack(m[keys[k]], keys[k])]

GetNeededItems(c) == SortedStacks(c.items_needed)

\* ------------------------------------------------------------ call frames

\* a call of have_or_craft_item(item_needed, top_level)
HocFrame(item_needed, top_level) ==
    [fn |-> "have_or_craft_item", item_needed |-> item_needed, top_level |-> top_level,
     count_needed |-> 0, pc |-> "entry"]

\* a call of evaluate_recipe(recipe), about to satisfy input number i
RecipeFrame(recipe) == [fn |-> "evaluate_recipe", recipe |-> recipe, i |-> 1]

Top == stack[Len(stack)]
Pop == SubSeq(stack, 1, Len(stack) - 1)
ReplaceTop(f) == [stack EXCEPT ![Len(stack)] = f]
Push(f) == Append(stack, f)

InFrame(fn) == status = "running" /\ Len(stack) > 0 /\ Top.fn = fn

NoResult == [kind |-> "None"]
OkResult(available, output, needed) ==
    [kind |-> "Ok", items_available |-> available, items_output |-> output,
     items_needed |-> needed]
ErrResult == [kind |-> "Err", error |-> "MaxDepthExceeded"]

\* mutant of Transfer: the output entry is set to the count instead of raised by it
TransferOverwrite(available, output, item_needed, bld) ==
    LET old == Get(available, item_needed.item)
    IN IF ULt(old, item_needed.count) /\ bld = "debug"
       THEN [panic |-> TRUE, available |-> Put(available, item_needed.item, old),
             output |-> output]
       ELSE [panic |-> FALSE,
             available |-> Put(available, item_needed.item, old - item_needed.count),
             output |-> Put(output, item_needed.item, item_needed.count)]

\* have_or_craft_item, lines 105-115: the transfer of a top-level need to the
\* output.  The subtraction is a plain u64 `-=`: below zero it panics in a build
\* with overflow checks and wraps in one without.
Transfer(available, output, item_needed, bld) ==
    LET old == Get(available, item_needed.item)
    IN IF ULt(old, item_needed.count) /\ bld = "debug"
       THEN [panic |-> TRUE, available |-> Put(available, item_needed.item, old),
             output |-> output]
       ELSE [panic |-> FALSE,
             available |-> Put(available, item_needed.item, old - item_needed.count),
             output |-> Put(output, item_needed.item,
                            Get(output, item_needed.item) + item_needed.count)]

\* evaluate_recipe, line 122: the guard on the recursion depth
DepthExceeded(d) == d > MAX_DEPTH

\* have_or_craft_item, lines 84-90: the condition of the while loop
MustCraft(available, item_needed, count_needed) ==
    ULt(Get(available, item_needed.item), count_needed)

\* ---------------------------------------------------------------- actions

\* evaluate, line 171: Context::new(program)
ContextNew ==
    /\ status = "new"
    /\ items_available' = NewAvailable(program.have_section)
    /\ recipes' = NewRecipes(program.recipe_section)
    /\ status' = "running"
    /\ UNCHANGED <<input, parsed, parse_result, program, build, items_output, items_needed, depth, need_idx, stack,
                   result>>

\* evaluate, lines 173-175: the for loop calls have_or_craft_item(need, true)
EvaluateNeed ==
    /\ status = "running" /\ stack = <<>>
    /\ need_idx <= Len(program.need_section)
    /\ stack' = Push(HocFrame(program.need_section[need_idx], TRUE))
    /\ need_idx' = need_idx + 1
    /\ UNCHANGED <<input, parsed, parse_result, program, build, ctx, status, result>>

\* evaluate, lines 176-179: cleanup, whose debug_assert holds, and Ok(ctx)
EvaluateOk ==
    /\ status = "running" /\ stack = <<>>
    /\ need_idx > Len(program.need_section)
    /\ build = "debug" => CleanupAssertion(items_output)
    /\ items_needed' = CleanupNeeded(items_needed)
    /\ items_available' = CleanupAvailable(items_available)
    /\ status' = "ok"
    /\ result' = OkResult(items_available', items_output, items_needed')
    /\ UNCHANGED <<input, parsed, parse_result, program, build, items_output, recipes, depth, need_idx, stack>>

\* evaluate, line 176: cleanup, whose debug_assert fails (a build with debug
\* assertions panics after the two retain calls)
CleanupPanic ==
    /\ status = "running" /\ stack = <<>>
    /\ need_idx > Len(program.need_section)
    /\ build = "debug" /\ ~ CleanupAssertion(items_output)
    /\ items_needed' = CleanupNeeded(items_needed)
    /\ items_available' = CleanupAvailable(items_available)
    /\ status' = "panic"
    /\ UNCHANGED <<input, parsed, parse_result, program, build, items_output, recipes, depth, need_idx, stack, result>>

\* have_or_craft_item, lines 71-73: the stock covers the need
HaveItem ==
    /\ InFrame("have_or_craft_item") /\ Top.pc = "entry"
    /\ LET t == TryUseItem(items_available, Top.item_needed)
       IN /\ t.remaining = 0
          /\ items_available' = t.available
          /\ stack' = ReplaceTop([Top EXCEPT !.count_needed = 0, !.pc = "transfer"])
    /\ UNCHANGED <<input, parsed, parse_result, program, build, items_output, items_needed, recipes, depth, need_idx,
                   status, result>>

\* have_or_craft_item, lines 71-82: the stock falls short and a recipe exists
FindRecipe ==
    /\ InFrame("have_or_craft_item") /\ Top.pc = "entry"
    /\ LET t == TryUseItem(items_available, Top.item_needed)
       IN /\ t.remaining # 0
          /\ Top.item_needed.item \in DOMAIN recipes
          /\ items_available' = t.available
          /\ stack' = ReplaceTop([Top EXCEPT !.count_needed = t.remaining, !.pc = "while"])
    /\ UNCHANGED <<input, parsed, parse_result, program, build, items_output, items_needed, recipes, depth, need_idx,
                   status, result>>

\* mutant of RegisterNeed: the shortfall is registered whether or not the item
\* has a recipe
RegisterNeedAnyItem ==
    /\ InFrame("have_or_craft_item") /\ Top.pc = "entry"
    /\ LET t == TryUseItem(items_available, Top.item_needed)
           r == RegisterNeedItem(t.available, items_needed,
                                 ItemStack(t.remaining, Top.item_needed.item))
       IN /\ t.remaining # 0
          /\ Get(r.needed, Top.item_needed.item) <= MaxQty
          /\ items_available' = r.available
          /\ items_needed' = r.needed
          /\ stack' = ReplaceTop([Top EXCEPT !.count_needed = t.remaining, !.pc = "transfer"])
    /\ UNCHANGED <<input, parsed, parse_result, program, build, items_output, recipes, depth, need_idx, status, result>>

\* have_or_craft_item, lines 71-79 and 93-102: the stock falls short and there is
\* no recipe: register_need_item
RegisterNeed ==
    /\ InFrame("have_or_craft_item") /\ Top.pc = "entry"
    /\ LET t == TryUseItem(items_available, Top.item_needed)
           r == RegisterNeedItem(t.available, items_needed,
                                 ItemStack(t.remaining, Top.item_needed.item))
       IN /\ t.remaining # 0
          /\ Top.item_needed.item \notin DOMAIN recipes
          /\ Get(r.needed, Top.item_needed.item) <= MaxQty
          /\ items_available' = r.available
          /\ items_needed' = r.needed
          /\ stack' = ReplaceTop([Top EXCEPT !.count_needed = t.remaining, !.pc = "transfer"])
    /\ UNCHANGED <<input, parsed, parse_result, program, build, items_output, recipes, depth, need_idx, status, result>>

\* have_or_craft_item, lines 84-91 and evaluate_recipe, lines 122-125: the loop
\* condition holds, the depth guard passes, the recipe is entered
CraftCall ==
    /\ InFrame("have_or_craft_item") /\ Top.pc = "while"
    /\ MustCraft(items_available, Top.item_needed, Top.count_needed)
    /\ ~ DepthExceeded(depth)
    /\ depth' = depth + 1
    /\ stack' = Push(RecipeFrame(recipes[Top.item_needed.item]))
    /\ UNCHANGED <<input, parsed, parse_result, program, build, items_available, items_output, items_needed, recipes,
                   need_idx, status, result>>

\* mutant of MaxDepthExceeded: evaluate swallows the error and returns the Context
MaxDepthExceededSwallowed ==
    /\ status = "running" /\ Len(stack) > 0
    /\ Top.fn = "have_or_craft_item" /\ Top.pc = "while"
    /\ ULt(Get(items_available, Top.item_needed.item), Top.count_needed)
    /\ depth > MAX_DEPTH
    /\ stack' = <<>>
    /\ status' = "ok"
    /\ result' = OkResult(items_available, items_output, items_needed)
    /\ UNCHANGED <<input, parsed, parse_result, program, build, ctx, need_idx>>

\* mutant of MaxDepthExceeded: evaluate drops the error of a need line and goes
\* on with the next one
MaxDepthExceededIgnored ==
    /\ status = "running" /\ Len(stack) > 0
    /\ Top.fn = "have_or_craft_item" /\ Top.pc = "while"
    /\ ULt(Get(items_available, Top.item_needed.item), Top.count_needed)
    /\ depth > MAX_DEPTH
    /\ stack' = <<>>
    /\ UNCHANGED <<input, parsed, parse_result, program, build, ctx, need_idx, status, result>>

\* evaluate_recipe, lines 122-124: Err(MaxDepthExceeded), which every caller up
\* to evaluate passes on with `?`; evaluate returns it and drops the Context
MaxDepthExceeded ==
    /\ InFrame("have_or_craft_item") /\ Top.pc = "while"
    /\ MustCraft(items_available, Top.item_needed, Top.count_needed)
    /\ DepthExceeded(depth)
    /\ stack' = <<>>
    /\ status' = "err"
    /\ result' = ErrResult
    /\ UNCHANGED <<input, parsed, parse_result, program, build, ctx, need_idx>>

\* have_or_craft_item, lines 84-92: the loop condition fails
WhileExit ==
    /\ InFrame("have_or_craft_item") /\ Top.pc = "while"
    /\ ~ MustCraft(items_available, Top.item_needed, Top.count_needed)
    /\ stack' = ReplaceTop([Top EXCEPT !.pc = "transfer"])
    /\ UNCHANGED <<input, parsed, parse_result, program, build, ctx, need_idx, status, result>>

\* evaluate_recipe, lines 128-130: have_or_craft_item(input, false)
RecipeInput ==
    /\ InFrame("evaluate_recipe")
    /\ Top.i <= Len(Top.recipe.inputs)
    /\ stack' = Append(ReplaceTop([Top EXCEPT !.i = Top.i + 1]),
                       HocFrame(Top.recipe.inputs[Top.i], FALSE))
    /\ UNCHANGED <<input, parsed, parse_result, program, build, ctx, need_idx, status, result>>

\* mutant of RecipeDone: the depth is not lowered when the recipe returns
RecipeDoneLeak ==
    /\ status = "running" /\ Len(stack) > 0 /\ Top.fn = "evaluate_recipe"
    /\ Top.i > Len(Top.recipe.inputs)
    /\ Get(AddItems(items_available, Top.recipe.output), Top.recipe.output.item) <= MaxQty
    /\ items_available' = AddItems(items_available, Top.recipe.output)
    /\ stack' = Pop
    /\ UNCHANGED <<input, parsed, parse_result, program, build, items_output, items_needed, recipes, depth, need_idx,
                   status, result>>

\* mutant of InputReturn: a need that is not top-level is transferred to the
\* output as well
InputReturnTransfers ==
    /\ InFrame("have_or_craft_item") /\ Top.pc = "transfer"
    /\ ~ Top.top_level
    /\ items_output' = Put(items_output, Top.item_needed.item,
                           Get(items_output, Top.item_needed.item) + Top.item_needed.count)
    /\ stack' = Pop
    /\ UNCHANGED <<input, parsed, parse_result, program, build, items_available, items_needed, recipes, depth,
                   need_idx, status, result>>

\* evaluate_recipe, lines 132-136: add_items(output), depth -= 1, Ok(())
RecipeDone ==
    /\ InFrame("evaluate_recipe")
    /\ Top.i > Len(Top.recipe.inputs)
    /\ Get(AddItems(items_available, Top.recipe.output), Top.recipe.output.item) <= MaxQty
    /\ items_available' = AddItems(items_available, Top.recipe.output)
    /\ depth' = depth - 1
    /\ stack' = Pop
    /\ UNCHANGED <<input, parsed, parse_result, program, build, items_output, items_needed, recipes, need_idx, status,
                   result>>

\* have_or_craft_item, lines 105-117, top_level: the transfer to the output
TopLevelReturn ==
    /\ InFrame("have_or_craft_item") /\ Top.pc = "transfer"
    /\ Top.top_level
    /\ LET t == Transfer(items_available, items_output, Top.item_needed, build)
       IN /\ ~ t.panic
          /\ items_available' = t.available
          /\ items_output' = t.output
    /\ stack' = Pop
    /\ UNCHANGED <<input, parsed, parse_result, program, build, items_needed, recipes, depth, need_idx, status, result>>

\* have_or_craft_item, lines 107-110: `attempt to subtract with overflow`
TransferPanic ==
    /\ InFrame("have_or_craft_item") /\ Top.pc = "transfer"
    /\ Top.top_level
    /\ LET t == Transfer(items_available, items_output, Top.item_needed, build)
       IN /\ t.panic
          /\ items_available' = t.available
    /\ status' = "panic"
    /\ UNCHANGED <<input, parsed, parse_result, program, build, items_output, items_needed, recipes, depth, need_idx,
                   stack, result>>

\* have_or_craft_item, lines 105 and 117, not top_level: Ok(())
InputReturn ==
    /\ InFrame("have_or_craft_item") /\ Top.pc = "transfer"
    /\ ~ Top.top_level
    /\ stack' = Pop
    /\ UNCHANGED <<input, parsed, parse_result, program, build, ctx, need_idx, status, result>>

\* a quantity passes MaxQty: the model follows the run no further
QuantityLimit ==
    /\ status = "running" /\ Len(stack) > 0
    /\ \/ /\ Top.fn = "evaluate_recipe"
          /\ Top.i > Len(Top.recipe.inputs)
          /\ Get(AddItems(items_available, Top.recipe.output), Top.recipe.output.item) > MaxQty
       \/ /\ Top.fn = "have_or_craft_item" /\ Top.pc = "entry"
          /\ Top.item_needed.item \notin DOMAIN recipes
          /\ LET t == TryUseItem(items_available, Top.item_needed)
                 r == RegisterNeedItem(t.available, items_needed,
                                       ItemStack(t.remaining, Top.item_needed.item))
             IN t.remaining # 0 /\ Get(r.needed, Top.item_needed.item) > MaxQty
    /\ status' = "limit"
    /\ UNCHANGED <<input, parsed, parse_result, program, build, ctx, need_idx, stack, result>>

Next ==
    \/ ContextNew
    \/ EvaluateNeed
    \/ EvaluateOk
    \/ CleanupPanic
    \/ HaveItem
    \/ FindRecipe
    \/ RegisterNeed
    \/ CraftCall
    \/ MaxDepthExceeded
    \/ WhileExit
    \/ RecipeInput
    \/ RecipeDone
    \/ TopLevelReturn
    \/ TransferPanic
    \/ InputReturn
    \/ QuantityLimit

\* ------------------------------------------------------------- the parser
\* The text is a sequence of characters. A parser takes the text s and the
\* position i of its next character and returns [ok, pos, out]: whether it
\* matched, the position after the match, and the value it produced.

SP == " "
TAB == "\t"
CR == "\r"
LF == "\n"

POk(pos, out) == [ok |-> TRUE, pos |-> pos, out |-> out]
PErr(pos) == [ok |-> FALSE, pos |-> pos, out |-> <<>>]

\* `let v = x; K(v)`: x is computed once, however often K uses it
Let(x, K(_)) == CHOOSE y \in {K(v) : v \in {x}} : TRUE

\* the character at position i, "" at the end of the text
At(s, i) == IF i >= 1 /\ i <= Len(s) THEN s[i] ELSE ""

RECURSIVE SkipWhile(_, _, _)
SkipWhile(s, i, set) == IF At(s, i) \in set THEN SkipWhile(s, i + 1, set) ELSE i

RECURSIVE SkipUntil(_, _, _)
SkipUntil(s, i, set) ==
    IF i > Len(s) \/ s[i] \in set THEN i ELSE SkipUntil(s, i + 1, set)

\* nom::bytes::complete::tag
Tag(s, i, t) ==
    IF i + Len(t) - 1 <= Len(s) /\ SubSeq(s, i, i + Len(t) - 1) = t
    THEN POk(i + Len(t), t) ELSE PErr(i)

\* nom::character::complete::char
Char(s, i, c) == IF At(s, i) = c THEN POk(i + 1, c) ELSE PErr(i)

\* nom::character::complete::space0: spaces and tabs; it always matches, so
\* it is given as the position after them
Space0(s, i) == SkipWhile(s, i, {SP, TAB})

\* nom::character::complete::multispace0: spaces, tabs, CR and LF
Multispace0(s, i) == SkipWhile(s, i, {SP, TAB, CR, LF})

\* nom::character::complete::line_ending: "\n" or "\r\n"
LineEnding(s, i) ==
    IF At(s, i) = LF THEN POk(i + 1, <<LF>>)
    ELSE IF At(s, i) = CR /\ At(s, i + 1) = LF THEN POk(i + 2, <<CR, LF>>)
    ELSE PErr(i)

\* nom::combinator::eof
Eof(s, i) == IF i > Len(s) THEN POk(i, <<>>) ELSE PErr(i)

\* nom::bytes::complete::take_while1
TakeWhile1(s, i, set) ==
    Let(SkipWhile(s, i, set),
        LAMBDA j : IF j = i THEN PErr(i) ELSE POk(j, SubSeq(s, i, j - 1)))

\* nom::bytes::complete::is_not: the longest non-empty run of other characters
IsNot(s, i, set) ==
    Let(SkipUntil(s, i, set),
        LAMBDA j : IF j = i THEN PErr(i) ELSE POk(j, SubSeq(s, i, j - 1)))

Digits == <<"0", "1", "2", "3", "4", "5", "6", "7", "8", "9">>

DigitValue(c) == (CHOOSE k \in DOMAIN Digits : Digits[k] = c) - 1

\* the number that the digits s[i], ..., s[j - 1] write
RECURSIVE Decimal(_, _, _)
Decimal(s, i, j) ==
    IF j = i THEN 0 ELSE Decimal(s, i, j - 1) * 10 + DigitValue(s[j - 1])

\* nom::character::complete::u64: one or more decimal digits. The texts of
\* Inputs have one digit per count, so its overflow error cannot happen.
U64(s, i) ==
    Let(SkipWhile(s, i, {Digits[k] : k \in DOMAIN Digits}),
        LAMBDA j : IF j = i THEN PErr(i) ELSE POk(j, Decimal(s, i, j)))

\* the characters of the texts that str::trim removes
White == {SP, TAB, CR, LF}

RECURSIVE TrimEnd(_)
TrimEnd(t) ==
    IF Len(t) > 0 /\ t[Len(t)] \in White THEN TrimEnd(SubSeq(t, 1, Len(t) - 1)) ELSE t

\* str::trim
Trim(t) == TrimEnd(SubSeq(t, SkipWhile(t, 1, White), Len(t)))

\* parsing::fuzzy_line_ending, lines 93-95
FuzzyLineEnding(s, i) == LineEnding(s, Space0(s, i))

\* parsing::item, lines 81-86: an Item is its name
ParseItem(s, i) ==
    Let(IsNot(s, i, {"+", "=", CR, LF}),
        LAMBDA r : IF r.ok THEN POk(r.pos, Trim(r.out)) ELSE PErr(i))

\* parsing::item_with_count, lines 71-78
ParseItemWithCount(s, i) ==
    Let(U64(s, i), LAMBDA count :
        IF ~ count.ok THEN PErr(i)
        ELSE Let(TakeWhile1(s, count.pos, {SP}), LAMBDA space :
            IF ~ space.ok THEN PErr(i)
            ELSE Let(ParseItem(s, space.pos), LAMBDA name :
                IF ~ name.ok THEN PErr(i)
                ELSE POk(name.pos, ItemStack(count.out, name.out)))))

\* parsing::recipe, lines 56-57: delimited(space0, char(c), space0)
Delimited(s, i, c) ==
    Let(Char(s, Space0(s, i), c), LAMBDA sign :
        IF sign.ok THEN POk(Space0(s, sign.pos), c) ELSE PErr(i))

\* nom::multi::separated_list1(plus, item_with_count) after its first element:
\* a separator that no element follows is not consumed
RECURSIVE SeparatedListRest(_, _, _)
SeparatedListRest(s, i, acc) ==
    Let(Delimited(s, i, "+"), LAMBDA plus :
        IF ~ plus.ok THEN POk(i, acc)
        ELSE Let(ParseItemWithCount(s, plus.pos), LAMBDA next :
            IF ~ next.ok THEN POk(i, acc)
            ELSE Let(Append(acc, next.out), LAMBDA list :
                SeparatedListRest(s, next.pos, list))))

SeparatedList1(s, i) ==
    Let(ParseItemWithCount(s, i), LAMBDA first :
        IF first.ok THEN SeparatedListRest(s, first.pos, <<first.out>>) ELSE PErr(i))

\* parsing::recipe, lines 55-68
ParseRecipe(s, i) ==
    Let(ParseItemWithCount(s, i), LAMBDA output :
        IF ~ output.ok THEN PErr(i)
        ELSE Let(Delimited(s, output.pos, "="), LAMBDA equal :
            IF ~ equal.ok THEN PErr(i)
            ELSE Let(SeparatedList1(s, equal.pos), LAMBDA inputs :
                IF ~ inputs.ok THEN PErr(i)
                ELSE POk(inputs.pos, Recipe(output.out, inputs.out)))))

\* the body parser a section is built with, lines 15-17
Body(body, s, i) ==
    IF body = "recipe" THEN ParseRecipe(s, i) ELSE ParseItemWithCount(s, i)

\* alt((fuzzy_line_ending, eof)), line 51
LineEnd(s, i) ==
    Let(FuzzyLineEnding(s, i), LAMBDA ending : IF ending.ok THEN ending ELSE Eof(s, i))

\* parsing::list_item, lines 47-52
ParseListItem(body, s, i) ==
    Let(Char(s, i, "-"), LAMBDA dash :
        IF ~ dash.ok THEN PErr(i)
        ELSE Let(Body(body, s, Space0(s, dash.pos)), LAMBDA f :
            IF ~ f.ok THEN PErr(i)
            ELSE Let(LineEnd(s, f.pos), LAMBDA end :
                IF ~ end.ok THEN PErr(i) ELSE POk(end.pos, f.out))))

\* nom::multi::many0(list_item(body)): stops, with success, at the first
\* position where no list item matches
RECURSIVE Many0(_, _, _, _)
Many0(body, s, i, acc) ==
    Let(ParseListItem(body, s, i), LAMBDA r :
        IF ~ r.ok THEN POk(i, acc)
        ELSE Let(Append(acc, r.out), LAMBDA list : Many0(body, s, r.pos, list)))

\* parsing::section, lines 36-44
ParseSection(head, body, s, i) ==
    Let(Tag(s, i, head), LAMBDA t :
        IF ~ t.ok THEN PErr(i)
        ELSE Let(Char(s, t.pos, ":"), LAMBDA colon :
            IF ~ colon.ok THEN PErr(i)
            ELSE Let(FuzzyLineEnding(s, colon.pos), LAMBDA ending :
                IF ~ ending.ok THEN PErr(i)
                ELSE Many0(body, s, ending.pos, <<>>))))

\* parsing::program, lines 15-17 and 21-23: the three parsers of the
\* permutation, in the order they are given to it
Sections ==
    << [head |-> <<"n", "e", "e", "d">>, body |-> "item_with_count"],
       [head |-> <<"h", "a", "v", "e">>, body |-> "item_with_count"],
       [head |-> <<"r", "e", "c", "i", "p", "e", "s">>, body |-> "recipe"] >>

\* preceded(multispace0, section), lines 21-23
PrecededSection(k, s, i) ==
    Let(Multispace0(s, i), LAMBDA j :
        Let(ParseSection(Sections[k].head, Sections[k].body, s, j), LAMBDA r :
            IF r.ok THEN r ELSE PErr(i)))

NoneDone == [k \in DOMAIN Sections |-> [done |-> FALSE, out |-> <<>>]]

Done(res, k, out) == [res EXCEPT ![k] = [done |-> TRUE, out |-> out]]

\* mutant of Permutation: the sections are only taken in the order given
RECURSIVE PermutationInOrder(_, _, _, _)
PermutationInOrder(s, i, res, k) ==
    IF k > Len(Sections) THEN POk(i, res)
    ELSE Let(PrecededSection(k, s, i), LAMBDA r :
            IF ~ r.ok THEN PErr(i)
            ELSE Let(Done(res, k, r.out), LAMBDA done :
                    PermutationInOrder(s, r.pos, done, k + 1)))

\* nom::branch::permutation, from its parser number k on: at each position the
\* parsers that have not yet matched are tried in the order given, the first
\* that matches is taken and the loop starts over with the first parser; it
\* fails when none of the remaining ones matches, and ends when all have
RECURSIVE Permutation(_, _, _, _)
Permutation(s, i, res, k) ==
    IF k > Len(Sections)
    THEN IF \A n \in DOMAIN res : res[n].done THEN POk(i, res) ELSE PErr(i)
    ELSE IF res[k].done THEN Permutation(s, i, res, k + 1)
    ELSE Let(PrecededSection(k, s, i), LAMBDA r :
            IF ~ r.ok THEN Permutation(s, i, res, k + 1)
            ELSE Let(Done(res, k, r.out), LAMBDA done :
                    Permutation(s, r.pos, done, 1)))

\* parsing::program, lines 14-33: the IResult, as [ok, rest, out]
ParseProgram(s) ==
    Let(Permutation(s, 1, NoneDone, 1), LAMBDA p :
        IF p.ok
        THEN [ok |-> TRUE,
              rest |-> SubSeq(s, Multispace0(s, p.pos), Len(s)),
              out |-> Program(p.out[1].out, p.out[2].out, p.out[3].out)]
        ELSE [ok |-> FALSE, rest |-> SubSeq(s, p.pos, Len(s)), out |-> <<>>])

NotParsed == [kind |-> "None"]

\* the text given to parse_from_string: the characters of an input, which is
\* kept as its pieces [lead, sections, sep, tail]
HeadText(head) ==
    IF head = "need" THEN <<"n", "e", "e", "d", ":", LF>>
    ELSE IF head = "have" THEN <<"h", "a", "v", "e", ":", SP, CR, LF>>
    ELSE <<"r", "e", "c", "i", "p", "e", "s", ":", LF>>

RECURSIVE Flatten(_)
Flatten(seqs) == IF seqs = <<>> THEN <<>> ELSE Head(seqs) \o Flatten(Tail(seqs))

SectionText(sec) == HeadText(sec.head) \o Flatten(sec.lines)

Text(in) ==
    in.lead
    \o Flatten([k \in DOMAIN in.sections |->
                  (IF k = 1 THEN <<>> ELSE in.sep) \o SectionText(in.sections[k])])
    \o in.tail

NoInput == [lead |-> <<>>, sections |-> <<>>, sep |-> <<>>, tail |-> <<>>]

\* logic::Program::parse_from_string, line 18
ParsingProgram ==
    /\ status = "text"
    /\ \E s \in {Text(input)} : parsed' = ParseProgram(s)
    /\ status' = "parsed"
    /\ UNCHANGED <<input, parse_result, program, build, ctx, need_idx, stack, result>>

\* parse_from_string, lines 19-22: nothing remains
ParseFromStringOk ==
    /\ status = "parsed"
    /\ parsed.ok /\ parsed.rest = <<>>
    /\ parse_result' = [kind |-> "Ok", program |-> parsed.out]
    /\ status' = "returned"
    /\ UNCHANGED <<input, parsed, program, build, ctx, need_idx, stack, result>>

\* mutant of ParseFromStringRemaining: the Program is returned although text remains
ParseFromStringRemainingIgnored ==
    /\ status = "parsed"
    /\ parsed.ok /\ parsed.rest # <<>>
    /\ parse_result' = [kind |-> "Ok", program |-> parsed.out]
    /\ status' = "returned"
    /\ UNCHANGED <<input, parsed, program, build, ctx, need_idx, stack, result>>

\* parse_from_string, lines 23-26: the program rule matched a prefix
ParseFromStringRemaining ==
    /\ status = "parsed"
    /\ parsed.ok /\ parsed.rest # <<>>
    /\ parse_result' = [kind |-> "Err", error |-> "Remaining", text |-> parsed.rest]
    /\ status' = "returned"
    /\ UNCHANGED <<input, parsed, program, build, ctx, need_idx, stack, result>>

\* parse_from_string, lines 27-30: the program rule failed
ParseFromStringErr ==
    /\ status = "parsed"
    /\ ~parsed.ok
    /\ parse_result' = [kind |-> "Err", error |-> "Error", text |-> parsed.rest]
    /\ status' = "returned"
    /\ UNCHANGED <<input, parsed, program, build, ctx, need_idx, stack, result>>

ParseNext ==
    \/ ParsingProgram
    \/ ParseFromStringOk
    \/ ParseFromStringRemaining
    \/ ParseFromStringErr

\* ----------------------------------------------------------- the programs

\* the item names of the tests, in the order of their names
Input == 1
Middle == 2
Output == 3

PosCounts == 1..MaxCount
BigCounts == (MAX_DEPTH + 1)..(MAX_DEPTH + BigExtra)

Lines(items, counts, n) == SeqsUpTo(Stacks(items, counts), n)

\* no recipes: need and have lines over two items, the have lines also twice
\* for one item
NoRecipePrograms ==
    {Program(n, h, <<>>) :
        n \in Lines({Input, Middle}, Counts, 2),
        h \in Lines({Input, Middle}, Counts, 1) \cup
              {<<ItemStack(a, Input), ItemStack(b, Input)>> : a, b \in Counts}}

\* the stock of the programs with recipes
SmallStock(items) ==
    {<<>>} \cup {<<ItemStack(1, i)>> : i \in items}

\* one recipe, o Middle <- c Input (test_single_recipe_has_nothing,
\* test_can_have_duplicate_need_items, test_can_have_duplicate_have_items)
SingleRecipe(o, c) == <<Recipe(ItemStack(o, Middle), <<ItemStack(c, Input)>>)>>

SingleRecipeStock ==
    Lines({Input, Middle}, PosCounts, 1) \cup {<<ItemStack(1, Input), ItemStack(1, Input)>>}

SingleRecipePrograms ==
    {Program(n, h, SingleRecipe(1, 1)) :
        n \in Lines({Middle}, Counts, 2), h \in SingleRecipeStock}
    \cup
    {Program(<<ItemStack(n, Middle)>>, h, SingleRecipe(o, c)) :
        n \in PosCounts, h \in SingleRecipeStock, o \in PosCounts, c \in Counts}

\* the recipe of test_run_recipe_multiple_times, needed more than MAX_DEPTH times
BigNeedPrograms ==
    {Program(<<ItemStack(n, Middle)>>, <<>>, SingleRecipe(1, 1)) : n \in BigCounts}

\* the recipes of test_need_items_dont_get_used_by_other_need_items
ChainRecipes(o1, c1, o2, c2) ==
    <<Recipe(ItemStack(o1, Output), <<ItemStack(c1, Middle)>>),
      Recipe(ItemStack(o2, Middle), <<ItemStack(c2, Input)>>)>>

ChainPrograms ==
    {Program(n, h, ChainRecipes(1, 1, 1, 1)) :
        n \in Lines({Middle, Output}, Counts, 2),
        h \in SmallStock({Input, Middle, Output})}
    \cup
    {Program(<<ItemStack(n, Output)>>, <<>>, ChainRecipes(o1, c1, o2, c2)) :
        n \in PosCounts, o1 \in PosCounts, c1 \in PosCounts, o2 \in PosCounts,
        c2 \in PosCounts}

\* one recipe with two inputs, 1 Output <- c1 Input + c2 Middle
TwoInputPrograms ==
    {Program(<<ItemStack(n, Output)>>, h,
             <<Recipe(ItemStack(1, Output), <<ItemStack(c1, Input), ItemStack(c2, Middle)>>)>>) :
        n \in Counts, h \in SmallStock({Input, Middle}), c1 \in Counts, c2 \in Counts}
    \cup
    \* the inputs in the other order, 1 Output <- c2 Middle + c1 Input
    {Program(<<ItemStack(1, Output)>>, <<>>,
             <<Recipe(ItemStack(1, Output), <<ItemStack(c2, Middle), ItemStack(c1, Input)>>)>>) :
        c1 \in PosCounts, c2 \in PosCounts}

\* recipes on a cycle: o Input <- c Input (test_prevent_infinite_loop), the same
\* with a second input, and Input <- Middle <- Input
CyclicRecipes ==
    {<<Recipe(ItemStack(o, Input), <<ItemStack(c, Input)>>)>> : o \in PosCounts, c \in {0, 1}}
    \cup
    {<<Recipe(ItemStack(1, Input), <<ItemStack(1, Output), ItemStack(1, Input)>>)>>,
     <<Recipe(ItemStack(1, Input), <<ItemStack(1, Input), ItemStack(1, Output)>>)>>,
     <<Recipe(ItemStack(1, Input), <<ItemStack(1, Middle)>>),
       Recipe(ItemStack(1, Middle), <<ItemStack(1, Input)>>)>>}

CyclicPrograms ==
    {Program(n, h, r) :
        n \in {<<>>, <<ItemStack(0, Input)>>, <<ItemStack(1, Input)>>,
               <<ItemStack(1, Output), ItemStack(1, Input)>>,
               <<ItemStack(1, Input), ItemStack(1, Output)>>, <<ItemStack(1, Middle)>>},
        h \in SmallStock({Input, Output}),
        r \in CyclicRecipes}

\* a recipe that produces nothing: 0 Middle <- c Input, 0 Middle <- c Middle
ZeroOutputPrograms ==
    {Program(<<ItemStack(n, Middle)>>, h, <<Recipe(ItemStack(0, Middle), <<ItemStack(c, i)>>)>>) :
        n \in Counts, h \in SmallStock({Input}), c \in {0, 1}, i \in {Input, Middle}}

\* two recipes for Middle, o1 Middle <- 1 Input and then o2 Middle <- c2 Output,
\* and the same program without the first of them
DuplicateRecipePrograms ==
    {Program(<<ItemStack(n, Middle)>>, h,
             <<Recipe(ItemStack(o1, Middle), <<ItemStack(1, Input)>>),
               Recipe(ItemStack(o2, Middle), <<ItemStack(c2, Output)>>)>>) :
        n \in PosCounts, h \in {<<>>, <<ItemStack(1, Input)>>},
        o1 \in PosCounts, o2 \in PosCounts, c2 \in PosCounts}
    \cup
    {Program(<<ItemStack(n, Middle)>>, h,
             <<Recipe(ItemStack(o2, Middle), <<ItemStack(c2, Output)>>)>>) :
        n \in PosCounts, h \in {<<>>, <<ItemStack(1, Input)>>},
        o2 \in PosCounts, c2 \in PosCounts}

\* a linear chain of k recipes, 1 item j <- 1 item j + 1 for j in 1..k, with no
\* stock and the need 1 x item 1; item k + 1 has no recipe
LinearChain(k) ==
    Program(<<ItemStack(1, 1)>>, <<>>,
            [j \in 1..k |-> Recipe(ItemStack(1, j), <<ItemStack(1, j + 1)>>)])

\* short chains and the chains of about MAX_DEPTH recipes
ChainLengths == {1, 2} \cup MAX_DEPTH..(MAX_DEPTH + BigExtra)

LinearChainPrograms == {LinearChain(k) : k \in ChainLengths}

Programs ==
    NoRecipePrograms \cup SingleRecipePrograms \cup BigNeedPrograms \cup ChainPrograms
    \cup TwoInputPrograms \cup CyclicPrograms \cup ZeroOutputPrograms
    \cup DuplicateRecipePrograms \cup LinearChainPrograms

Builds == {"debug", "release"}

\* ------------------------------------------------------------- the texts

\* list items: "- 1 a" LF, "-2 b c " CR LF, "- 1 a" without a line ending
StackLine1 == <<"-", SP, "1", SP, "a", LF>>
StackLine2 == <<"-", "2", SP, "b", SP, "c", SP, CR, LF>>
StackLineOpen == <<"-", SP, "1", SP, "a">>
\* "- 1 c = 2 a" LF, "-1 c=1 a + 1 b" LF
RecipeLine1 == <<"-", SP, "1", SP, "c", SP, "=", SP, "2", SP, "a", LF>>
RecipeLine2 == <<"-", "1", SP, "c", "=", "1", SP, "a", SP, "+", SP, "1", SP, "b", LF>>
\* a list item without a count, a recipe without inputs
NoCountLine == <<"-", SP, "a", LF>>
NoInputsLine == <<"-", SP, "1", SP, "c", SP, "=", LF>>

StackBodies ==
    {<<>>, <<StackLine1, StackLine2>>, <<StackLine2, StackLineOpen>>,
     <<NoCountLine>>, <<RecipeLine1>>}

RecipeBodies ==
    {<<>>, <<RecipeLine2, RecipeLine1>>, <<NoInputsLine>>, <<StackLine1>>}

Bodies(head) == IF head = "recipes" THEN RecipeBodies ELSE StackBodies

\* the six orders of the three sections, a text without recipes section and
\* a text with two need sections
SectionOrders ==
    {<<"need", "have", "recipes">>, <<"need", "recipes", "have">>,
     <<"have", "need", "recipes">>, <<"have", "recipes", "need">>,
     <<"recipes", "need", "have">>, <<"recipes", "have", "need">>,
     <<"need", "have">>, <<"need", "need", "have">>}

\* text that is no list item and no header
JunkLine == <<"=", "x", LF>>

Inputs ==
    UNION {
        {[lead |-> IF spaced THEN <<LF, SP>> ELSE <<>>,
          sections |-> [k \in DOMAIN o |-> [head |-> o[k], lines |-> b[k]]],
          sep |-> IF spaced THEN <<SP, TAB, LF>> ELSE <<>>,
          tail |-> tail] :
            b \in {f \in [DOMAIN o -> StackBodies \cup RecipeBodies] :
                      \A k \in DOMAIN o : f[k] \in Bodies(o[k])},
            spaced \in BOOLEAN,
            tail \in {<<>>, <<LF, SP, TAB>>, JunkLine, HeadText("need")}} :
        o \in SectionOrders}

\* ------------------------------------------------------- the specification

Init ==
    /\ program \in Programs
    /\ build \in Builds
    /\ items_available = EmptyMap
    /\ items_output = EmptyMap
    /\ items_needed = EmptyMap
    /\ recipes = EmptyMap
    /\ depth = 0
    /\ need_idx = 1
    /\ stack = <<>>
    /\ status = "new"
    /\ result = NoResult
    /\ input = NoInput
    /\ parsed = NotParsed
    /\ parse_result = NotParsed

Spec == Init /\ [][Next]_vars

\* evaluate is one sequential call: a step that can be taken is taken
FairSpec == Spec /\ WF_vars(Next)

\* Program::parse_from_string on each text of Inputs
ParseInit ==
    /\ input \in Inputs
    /\ parsed = NotParsed
    /\ parse_result = NotParsed
    /\ status = "text"
    /\ program = Program(<<>>, <<>>, <<>>)
    /\ build = "release"
    /\ items_available = EmptyMap
    /\ items_output = EmptyMap
    /\ items_needed = EmptyMap
    /\ recipes = EmptyMap
    /\ depth = 0
    /\ need_idx = 1
    /\ stack = <<>>
    /\ result = NoResult

ParseSpec == ParseInit /\ [][ParseNext]_vars

\* ------------------------------------------------------------ the claims

\* the sum of the counts of the lines for one item
SumCounts(lines, item) ==
    LET F[k \in 0..Len(lines)] ==
            IF k = 0 THEN 0
            ELSE F[k - 1] + (IF lines[k].item = item THEN lines[k].count ELSE 0)
    IN F[Len(lines)]

SumNeed(item) == SumCounts(program.need_section, item)
SumHave(item) == SumCounts(program.have_section, item)

\* evaluate has returned or panicked
Finished == status \in {"ok", "err", "panic"}

ZeroStock == \A i \in Items : SumHave(i) = 0

\* the missing list of the returned Context
Missing == GetNeededItems(result)

\* no recipes, and the stock of every item covers what is needed of it
C1_Pre ==
    /\ program.recipe_section = <<>>
    /\ \A i \in Items : SumHave(i) >= SumNeed(i)

\* C1: with no recipes and, for every item, have >= need, evaluate succeeds,
\* nothing is missing, and the leftover of every item is have - need, items with
\* difference 0 being absent.
C1_LeftoverIsStockMinusNeed ==
    (C1_Pre /\ Finished) =>
        /\ result.kind = "Ok"
        /\ result.items_needed = EmptyMap
        /\ \A i \in Items :
              /\ Get(result.items_available, i) = SumHave(i) - SumNeed(i)
              /\ SumHave(i) = SumNeed(i) => i \notin DOMAIN result.items_available

\* C2: evaluate terminates for every Program: every call eventually returns a
\* Context or MaxDepthExceeded (a panic and a run the model stops following are
\* counted as ended here, so that only a run that never ends refutes it).
C2_EvaluateTerminates == <>(status \in {"ok", "err", "panic", "limit"})

\* what one step may do to items_output
C3_OutputSteps ==
    /\ \A i \in Items : Get(items_output', i) >= Get(items_output, i)
    /\ items_output' # items_output =>
          /\ InFrame("have_or_craft_item") /\ Top.pc = "transfer" /\ Top.top_level
          /\ \A i \in Items \ {Top.item_needed.item} :
                Get(items_output', i) = Get(items_output, i)

\* C3: output[item] never decreases, output changes only in the transfer of a
\* top-level need (crafting never draws from it), and after a successful
\* evaluate output[item] is the sum of the counts of the need lines for item.
C3_OutputIsNeverReused ==
    /\ [][C3_OutputSteps]_vars
    /\ [](status = "ok" =>
            \A i \in Items : Get(result.items_output, i) = SumNeed(i))

\* a successful evaluate that crafted for two need lines of one item
C3_Witness ==
    /\ status = "ok"
    /\ Len(program.need_section) = 2
    /\ program.recipe_section # <<>>
    /\ \E i \in Items : Get(result.items_output, i) >= 2 /\ i \in DOMAIN recipes
    /\ result.items_needed # EmptyMap

\* the program of test_need_items_dont_get_used_by_other_need_items, a and b free
C4_Pre ==
    /\ program.recipe_section = ChainRecipes(1, 1, 1, 1)
    /\ ZeroStock
    /\ \E a, b \in PosCounts :
          program.need_section = <<ItemStack(a, Middle), ItemStack(b, Output)>>

\* C4: with output <- 1 middle, middle <- 1 input, zero stock and the need lines
\* [a x middle, b x output] (a, b >= 1), evaluate succeeds with
\* missing == [(input, a + b)].
C4_ShortageIsAdditive ==
    (C4_Pre /\ Finished) =>
        /\ result.kind = "Ok"
        /\ Missing = <<ItemStack(SumNeed(Middle) + SumNeed(Output), Input)>>

\* the program of test_run_recipe_multiple_times, the need count free
C5_Pre ==
    /\ program.recipe_section = <<Recipe(ItemStack(1, Middle), <<ItemStack(1, Input)>>)>>
    /\ ZeroStock
    /\ Len(program.need_section) = 1
    /\ program.need_section[1].item = Middle
    /\ program.need_section[1].count >= 1

\* C5: with the only recipe X <- 1 Y, zero stock and the single need n x X,
\* n >= 1, evaluate succeeds with missing == [(Y, n)], also for n > MAX_DEPTH.
C5_ShortageScalesLinearly ==
    /\ [](C5_Pre /\ status # "running" /\ status # "new" =>
            /\ result.kind = "Ok"
            /\ Missing = <<ItemStack(program.need_section[1].count, Input)>>)
    /\ (C5_Pre => <>(status = "ok"))

\* the recipe was run more than MAX_DEPTH times and evaluate succeeded
C5_Witness ==
    /\ C5_Pre /\ status = "ok"
    /\ program.need_section[1].count > MAX_DEPTH
    /\ Get(result.items_needed, Input) > MAX_DEPTH

\* the recipe index of the program, and its graph: item -> input items
\* the recipe that the index of the program holds for item x, if it has one
HasRecipe(x) ==
    \E k \in DOMAIN program.recipe_section : program.recipe_section[k].output.item = x

Index(x) == LastRecipe(program.recipe_section, x)

InputItems(x) ==
    IF HasRecipe(x)
    THEN {Index(x).inputs[k].item : k \in 1..Len(Index(x).inputs)}
    ELSE {}

RECURSIVE ReachFrom(_, _)
ReachFrom(S, n) ==
    IF n = 0 THEN S ELSE ReachFrom(S \cup UNION {InputItems(y) : y \in S}, n - 1)

\* the items reached from x through one recipe or more
Below(x) == ReachFrom(InputItems(x), NumItems)

\* the items on a recipe cycle through x
CycleItems(x) == {y \in Below(x) : x \in Below(y)}

RecipeCountsPositive(r) ==
    /\ r.output.count >= 1
    /\ \A k \in 1..Len(r.inputs) : r.inputs[k].count >= 1

Needed(x) ==
    \E k \in 1..Len(program.need_section) :
        program.need_section[k].item = x /\ program.need_section[k].count >= 1

\* x is needed, lies on a recipe cycle, the cycle has no stock and no zero count
NeededCycle(x) ==
    /\ Needed(x)
    /\ x \in Below(x)
    /\ \A y \in CycleItems(x) : SumHave(y) = 0 /\ RecipeCountsPositive(Index(y))

\* C6: if an item on a recipe cycle is needed with count >= 1, every item on the
\* cycle has zero stock and every count on the cycle's recipes is >= 1, then
\* evaluate returns Err(MaxDepthExceeded).
C6_NeededCycleIsRejected ==
    ((\E x \in Items : NeededCycle(x)) /\ Finished) => result = ErrResult

C8_Pre ==
    /\ program.recipe_section = SingleRecipe(1, 1)
    /\ ZeroStock
    /\ Len(program.need_section) = 2
    /\ \A k \in 1..2 : program.need_section[k].item = Middle

\* C8: with recipe X <- 1 Y, zero stock and the need lines [a x X, b x X],
\* evaluate succeeds and the missing items are a + b of Y and nothing else.
C8_DuplicateNeedsSum ==
    (C8_Pre /\ Finished) =>
        /\ result.kind = "Ok"
        /\ \A i \in Items :
              Get(result.items_needed, i) = IF i = Input THEN SumNeed(Middle) ELSE 0

\* evaluate, between line 171 and the first need line
Constructed == status = "running" /\ need_idx = 1 /\ stack = <<>>

\* C9: after Context::new, available[item] is the sum of the counts of the have
\* lines for item; the have lines [a x I, b x I] give the Context of the single
\* line (a + b) x I; 1 + 1 input covers a recipe that needs 2 input.
C9_HaveLinesAreSummed ==
    /\ Constructed =>
          /\ \A i \in Items : Get(items_available, i) = SumHave(i)
          /\ DOMAIN items_available =
                {program.have_section[k].item : k \in 1..Len(program.have_section)}
    /\ \A a, b \in Counts, i \in Items :
          NewAvailable(<<ItemStack(a, i), ItemStack(b, i)>>) =
              NewAvailable(<<ItemStack(a + b, i)>>)
    /\ (/\ program = Program(<<ItemStack(1, Middle)>>,
                             <<ItemStack(1, Input), ItemStack(1, Input)>>,
                             SingleRecipe(1, 2))
        /\ Finished)
          => result.kind = "Ok" /\ Missing = <<>>

\* two have lines for one item have been summed into the new Context
C9_Witness ==
    /\ Constructed
    /\ Len(program.have_section) = 2
    /\ program.have_section[1].count >= 1 /\ program.have_section[2].count >= 1
    /\ program.have_section[1].item = program.have_section[2].item
    /\ items_available[program.have_section[1].item] >= 2

\* evaluate_recipe is about to be called with depth > MAX_DEPTH
DepthGuardTrips ==
    /\ InFrame("have_or_craft_item") /\ Top.pc = "while"
    /\ MustCraft(items_available, Top.item_needed, Top.count_needed)
    /\ depth > MAX_DEPTH

\* what a step does when the depth guard trips, and after the error
C10_ErrorStep ==
    /\ DepthGuardTrips => status' = "err"
    /\ (status' = "err" /\ status # "err") =>
          /\ DepthGuardTrips
          /\ result' = ErrResult
          /\ UNCHANGED <<items_available, items_output, items_needed, need_idx>>
    /\ status = "err" => UNCHANGED vars

\* C10: when a need line raises MaxDepthExceeded, evaluate returns only that
\* error: the step that trips the depth guard ends evaluate with the error and
\* credits nothing, no later need line is processed, and no Context is returned.
C10_ErrorIsAllOrNothing ==
    /\ [][C10_ErrorStep]_vars
    /\ [](status = "err" <=> result = ErrResult)
    /\ [](result.kind = "Ok" =>
            status = "ok" /\ need_idx = Len(program.need_section) + 1)

\* the first of two need lines failed after registering a missing item; the
\* second was never started
C10_Witness ==
    /\ status = "err"
    /\ need_idx = 2 /\ Len(program.need_section) = 2
    /\ items_needed # EmptyMap
    /\ items_output = EmptyMap

\* C11: after every successful evaluate, no item with count 0 appears in the
\* missing result or in the leftover (available) result.
C11_NoZeroEntries ==
    status = "ok" =>
        /\ \A k \in DOMAIN result.items_needed : result.items_needed[k] # 0
        /\ \A k \in DOMAIN result.items_available : result.items_available[k] # 0

\* evaluate succeeded and the stock of an item that was used up is not reported
C11_Witness ==
    /\ status = "ok"
    /\ \E i \in Items : SumHave(i) > 0 /\ i \notin DOMAIN result.items_available

\* the recipe section without the recipes that a later recipe for the same
\* output item replaces
WithoutEarlierConflicts(section) ==
    LET keep == {k \in 1..Len(section) :
                    \A j \in (k + 1)..Len(section) :
                        section[j].output.item # section[k].output.item}
        numbered == [k \in DOMAIN section |-> [k |-> k, recipe |-> section[k]]]
        kept == SelectSeq(numbered, LAMBDA e : e.k \in keep)
    IN [n \in DOMAIN kept |-> kept[n].recipe]

\* the result of the programs of DuplicateRecipePrograms, which depends on the
\* last recipe o Middle <- c Output and the need n x Middle alone: the recipe
\* runs until n Middle are there, each run registers c Output as missing
LastRecipeResult ==
    LET last == program.recipe_section[Len(program.recipe_section)]
        n == program.need_section[1].count
        runs == CHOOSE r \in 0..n : r * last.output.count >= n
                                   /\ (r - 1) * last.output.count < n
    IN [missing |-> <<ItemStack(runs * last.inputs[1].count, Output)>>,
        leftover_middle |-> runs * last.output.count - n]

\* C12: of several recipes with the same output item the index keeps exactly
\* the last declared one, a conflict is never an error, and evaluate gives the
\* result of the Program without the earlier conflicting recipes.
C12_LastRecipeWins ==
    /\ status # "new" =>
          DOMAIN recipes =
              {program.recipe_section[k].output.item :
                  k \in 1..Len(program.recipe_section)}
    /\ Constructed =>
          /\ \A k \in 1..Len(program.recipe_section) :
                (\A j \in (k + 1)..Len(program.recipe_section) :
                    program.recipe_section[j].output.item
                        # program.recipe_section[k].output.item)
                  => recipes[program.recipe_section[k].output.item]
                        = program.recipe_section[k]
          /\ recipes = NewRecipes(WithoutEarlierConflicts(program.recipe_section))
    /\ (program \in DuplicateRecipePrograms /\ status \notin {"new", "running"}) =>
          /\ result.kind = "Ok"
          /\ Missing = LastRecipeResult.missing
          /\ Get(result.items_available, Middle) = LastRecipeResult.leftover_middle
          /\ Get(result.items_available, Input) = SumHave(Input)

\* evaluate succeeded on a program with two recipes for one item
C12_Witness ==
    /\ status = "ok"
    /\ Len(program.recipe_section) = 2
    /\ program.recipe_section[1].output.item = program.recipe_section[2].output.item
    /\ program.recipe_section[1] # program.recipe_section[2]
    /\ Get(result.items_needed, Output) >= 1

\* the list items a well-formed section of this head is made of, each ending
\* with a line ending
GoodLines(head) ==
    IF head = "recipes" THEN {RecipeLine1, RecipeLine2} ELSE {StackLine1, StackLine2}

\* the lines of a section
LinesOf(sec) == {sec.lines[k] : k \in DOMAIN sec.lines}

\* each of the three headers occurs exactly once
EachHeaderOnce(in) ==
    /\ Len(in.sections) = 3
    /\ {in.sections[k].head : k \in DOMAIN in.sections} = {"need", "have", "recipes"}

\* every list item ends with a line ending, so that every header of the
\* text stands at the start of a line
HeadersStartLines(in) ==
    \A k \in DOMAIN in.sections : StackLineOpen \notin LinesOf(in.sections[k])

\* text that no rule can consume remains: a line that is no list item, a
\* second occurrence of a header, a list item that is not one of its section,
\* or a header is missing
JunkRemains(in) ==
    \/ in.tail = JunkLine
    \/ in.tail = HeadText("need") /\ HeadersStartLines(in)
    \/ \E k \in DOMAIN in.sections :
          LinesOf(in.sections[k]) \cap {NoCountLine, NoInputsLine} # {}
    \/ \E k \in DOMAIN in.sections :
          \/ in.sections[k].head = "recipes"
                /\ LinesOf(in.sections[k]) \cap {StackLine1, StackLine2} # {}
          \/ in.sections[k].head # "recipes"
                /\ LinesOf(in.sections[k]) \cap {RecipeLine1, RecipeLine2} # {}
    \/ ~EachHeaderOnce(in) /\ HeadersStartLines(in)

\* the number of list items of the text
NumLines(in) ==
    LET F[k \in 0..Len(in.sections)] ==
            IF k = 0 THEN 0 ELSE F[k - 1] + Len(in.sections[k].lines)
    IN F[Len(in.sections)]

\* C13: parse_from_string returns a Program only when the program rule consumed
\* the whole text except trailing whitespace, and then the Program has every
\* list item of the text; when non-whitespace text remains after the three
\* sections (a line that is no list item, a second header) or a rule fails, it
\* returns an error, which carries no Program.
C13_ParseConsumesAllOrFails ==
    status = "returned" =>
        LET s == Text(input)
            p == Permutation(s, 1, NoneDone, 1)
        IN /\ parse_result.kind \in {"Ok", "Err"}
           /\ parse_result.kind = "Ok" =>
                /\ p.ok
                /\ \A k \in p.pos..Len(s) : s[k] \in White
                /\ Len(parse_result.program.need_section)
                     + Len(parse_result.program.have_section)
                     + Len(parse_result.program.recipe_section) = NumLines(input)
           /\ parse_result.kind = "Err" => "program" \notin DOMAIN parse_result
           /\ (JunkRemains(input) \/ ~p.ok \/ \E k \in p.pos..Len(s) : s[k] \notin White)
                => parse_result.kind = "Err"

\* the three sections were parsed, a second need header remained, and
\* parse_from_string returned an error
C13_Witness ==
    /\ status = "returned"
    /\ EachHeaderOnce(input)
    /\ input.tail = HeadText("need")
    /\ parsed.ok /\ parsed.rest = HeadText("need")
    /\ parse_result.kind = "Err"

\* what a list item says
LineValue(line) ==
    CASE line = StackLine1 -> ItemStack(1, <<"a">>)
      [] line = StackLine2 -> ItemStack(2, <<"b", SP, "c">>)
      [] line = RecipeLine1 -> Recipe(ItemStack(1, <<"c">>), <<ItemStack(2, <<"a">>)>>)
      [] line = RecipeLine2 ->
            Recipe(ItemStack(1, <<"c">>), <<ItemStack(1, <<"a">>), ItemStack(1, <<"b">>)>>)

\* the list of a section, in its source order
SectionValue(in, head) ==
    LET sec == in.sections[CHOOSE k \in DOMAIN in.sections : in.sections[k].head = head]
    IN [k \in DOMAIN sec.lines |-> LineValue(sec.lines[k])]

\* the text is three well-formed sections, one of each header, in some order
ThreeSections(in) ==
    /\ in.lead = <<>> /\ in.sep = <<>> /\ in.tail = <<>>
    /\ EachHeaderOnce(in)
    /\ \A k \in DOMAIN in.sections :
          LinesOf(in.sections[k]) \subseteq GoodLines(in.sections[k].head)

\* C14: three well-formed section texts (need, have, recipes), each ending
\* with a line ending, parse successfully in each of their six orders, and to
\* the same Program: the need, have and recipe list each in its source order.
C14_SectionOrderIsIrrelevant ==
    (status = "returned" /\ ThreeSections(input)) =>
        /\ parse_result.kind = "Ok"
        /\ parse_result.program.need_section = SectionValue(input, "need")
        /\ parse_result.program.have_section = SectionValue(input, "have")
        /\ parse_result.program.recipe_section = SectionValue(input, "recipes")

\* a text with the recipes first and the need section last, each section with
\* two list items, was parsed
C14_Witness ==
    /\ status = "returned"
    /\ ThreeSections(input)
    /\ input.sections[1].head = "recipes" /\ input.sections[3].head = "need"
    /\ \A k \in DOMAIN input.sections : Len(input.sections[k].lines) = 2
    /\ parse_result.kind = "Ok"

\* C15: the missing list of get_needed_items is sorted in strictly increasing
\* order of item name and has one entry per item of items_needed, with its
\* count, whatever the order in which the items were registered.
C15_MissingIsSorted ==
    status = "ok" =>
        /\ \A k \in 1..(Len(Missing) - 1) : Missing[k].item < Missing[k + 1].item
        /\ Len(Missing) = Cardinality(DOMAIN result.items_needed)
        /\ \A k \in 1..Len(Missing) :
              /\ Missing[k].item \in DOMAIN result.items_needed
              /\ Missing[k].count = result.items_needed[Missing[k].item]

\* two items are missing, and the one with the greater name was registered first
C15_Witness ==
    /\ status = "ok"
    /\ Len(Missing) = 2
    /\ Len(program.recipe_section) = 1
    /\ Len(program.recipe_section[1].inputs) = 2
    /\ program.recipe_section[1].inputs[1].item > program.recipe_section[1].inputs[2].item

\* C16: in every reachable state depth <= MAX_DEPTH: a craft that would raise
\* depth above MAX_DEPTH returns MaxDepthExceeded instead of incrementing.
C16_DepthIsBounded == depth <= MAX_DEPTH

\* C17: for a linear chain of k distinct recipes, zero stock and the need
\* 1 x r1, evaluate succeeds with missing == [(base, 1)] when k <= MAX_DEPTH
\* and returns MaxDepthExceeded when k > MAX_DEPTH.
C17_ChainDepthLimit ==
    (program \in LinearChainPrograms /\ status \notin {"new", "running"}) =>
        LET k == Len(program.recipe_section)
        IN IF k <= MAX_DEPTH
           THEN status = "ok" /\ Missing = <<ItemStack(1, k + 1)>>
           ELSE status = "err" /\ result = ErrResult

\* C18: whenever have_or_craft_item(stack, top_level = true) reaches the
\* transfer step, available[stack.item] >= stack.count holds, so that the
\* unsigned subtraction of the transfer cannot go below zero.
C18_TransferNeverUnderflows ==
    (status = "running" /\ InFrame("have_or_craft_item")
        /\ Top.pc = "transfer" /\ Top.top_level) =>
        ~ ULt(Get(items_available, Top.item_needed.item), Top.item_needed.count)

\* C19: crafting consumes its inputs: with Output <- 1 Middle, Middle <- 1 Input
\* and zero stock, the need n x Output gives missing == [(Input, n)] and an
\* empty leftover.
C19_CraftingConsumesInputs ==
    (/\ program.recipe_section = ChainRecipes(1, 1, 1, 1)
     /\ program.have_section = <<>>
     /\ Len(program.need_section) = 1
     /\ program.need_section[1].item = Output
     /\ program.need_section[1].count >= 1
     /\ Finished) =>
        /\ status = "ok"
        /\ Missing = <<ItemStack(program.need_section[1].count, Input)>>
        /\ result.items_available = EmptyMap

\* C20: after all need lines of a Program have been processed without error,
\* the output map has no entry whose count is 0, so that the assertion of
\* cleanup holds.
C20_CleanupAssertionHolds ==
    (status = "running" /\ stack = <<>> /\ need_idx > Len(program.need_section)) =>
        CleanupAssertion(items_output)


\* have_or_craft_item is at its entry with an item that has no recipe and a
\* stock that falls short, and goes on (lines 93-102)
Registering ==
    /\ InFrame("have_or_craft_item") /\ Top.pc = "entry"
    /\ Top.item_needed.item \notin DOMAIN recipes
    /\ ULt(Get(items_available, Top.item_needed.item), Top.item_needed.count)
    /\ status' = "running"
    /\ stack' # stack

\* C21: when have_or_craft_item finds a shortfall > 0 for an item without a
\* recipe, items_needed[item] grows by exactly that shortfall: the second
\* try_use_item, inside register_need_item, finds a stock of 0, uses nothing
\* and leaves items_available as the first try_use_item left it.
C21_RegisterAddsTheShortfall ==
    [][Registering =>
        LET item == Top.item_needed.item
            shortfall == Top.item_needed.count - Get(items_available, item)
            first == TryUseItem(items_available, Top.item_needed)
            second == TryUseItem(first.available, ItemStack(shortfall, item))
        IN /\ shortfall > 0
           /\ first.remaining = shortfall
           /\ Get(first.available, item) = 0
           /\ second.remaining = shortfall
           /\ second.available = first.available
           /\ items_available' = first.available
           /\ Get(items_needed', item) = Get(items_needed, item) + shortfall
           /\ \A i \in (DOMAIN items_needed \cup DOMAIN items_needed') \ {item} :
                 Get(items_needed', i) = Get(items_needed, i)
           /\ stack'[Len(stack')].count_needed = shortfall]_vars

\* an item without a recipe was registered with a shortfall below the count
\* that was asked for: a part of the need came from the stock, which is now 0
C21_Witness ==
    /\ InFrame("have_or_craft_item") /\ Top.pc = "transfer"
    /\ Top.item_needed.item \notin DOMAIN recipes
    /\ Top.count_needed > 0 /\ Top.count_needed < Top.item_needed.count
    /\ Get(items_needed, Top.item_needed.item) >= Top.count_needed
    /\ Top.item_needed.item \in DOMAIN items_available
    /\ items_available[Top.item_needed.item] = 0


\* C22: only items without a recipe are ever reported missing: in every
\* reachable state an item with a non-zero entry in items_needed has no recipe
\* in the recipe index, nor in the recipe section the index was built from,
\* however large the shortfall of an item with a recipe was.
C22_OnlyBaseItemsAreMissing ==
    /\ \A i \in DOMAIN items_needed :
          items_needed[i] # 0 => i \notin DOMAIN recipes /\ ~ HasRecipe(i)
    /\ status = "ok" =>
          \A k \in DOMAIN Missing : ~ HasRecipe(Missing[k].item)

\* evaluate succeeded: an item with a recipe was needed more than MAX_DEPTH
\* times with no stock, and only the input of its recipe is reported missing
C22_Witness ==
    /\ status = "ok"
    /\ \E i \in Items :
          /\ HasRecipe(i) /\ SumNeed(i) > MAX_DEPTH /\ SumHave(i) = 0
          /\ i \notin DOMAIN result.items_needed
    /\ \E j \in DOMAIN result.items_needed : result.items_needed[j] > MAX_DEPTH


\* the number of calls of evaluate_recipe that have not returned
OpenRecipes == Cardinality({k \in DOMAIN stack : stack[k].fn = "evaluate_recipe"})

\* C23: depth counts nesting, not the number of crafts: while evaluate has not
\* failed, depth is the number of evaluate_recipe calls that are open, so a
\* craft that returns leaves depth as it found it and depth is 0 between two
\* need lines and in the end; a need that takes more than MAX_DEPTH crafts one
\* after the other at the same level never fails with MaxDepthExceeded.
C23_DepthCountsNesting ==
    /\ status # "err" => depth = OpenRecipes
    /\ stack = <<>> /\ status # "err" => depth = 0
    /\ (program \in BigNeedPrograms /\ status \notin {"new", "running"}) =>
          /\ status = "ok"
          /\ Missing = <<ItemStack(program.need_section[1].count, Input)>>

\* evaluate succeeded after more than MAX_DEPTH crafts of one recipe, one after
\* the other, and depth is back at 0
C23_Witness ==
    /\ status = "ok"
    /\ program \in BigNeedPrograms
    /\ program.need_section[1].count > MAX_DEPTH
    /\ depth = 0


\* the step is the transfer of a top-level have_or_craft_item (lines 105-115)
TopLevelTransfer ==
    /\ InFrame("have_or_craft_item") /\ Len(stack) = 1
    /\ Top.top_level /\ Top.pc = "transfer"

\* a call of evaluate_recipe or of have_or_craft_item(_, false) is running
InsideCraft ==
    /\ status = "running" /\ Len(stack) > 0
    /\ \/ Len(stack) > 1
       \/ Top.fn = "evaluate_recipe"
       \/ ~ Top.top_level

\* C24: evaluate_recipe and every have_or_craft_item(_, false) leave
\* items_output unchanged; no step after Context::new changes recipes;
\* items_output changes only in the transfer of a top-level have_or_craft_item,
\* and there only the entry of the needed item, which grows by the count.
C24_FrameOfNestedWork ==
    [][/\ InsideCraft => items_output' = items_output
       /\ status # "new" => recipes' = recipes
       /\ items_output' # items_output =>
             /\ TopLevelTransfer
             /\ \A i \in (DOMAIN items_output \cup DOMAIN items_output')
                            \ {Top.item_needed.item} :
                   /\ i \in DOMAIN items_output /\ i \in DOMAIN items_output'
                   /\ items_output'[i] = items_output[i]
             /\ items_output'[Top.item_needed.item] =
                   Get(items_output, Top.item_needed.item) + Top.item_needed.count]_vars

\* evaluate succeeded after crafting: an input of a recipe was registered
\* missing inside a craft, and the output holds the needed items alone
C24_Witness ==
    /\ status = "ok"
    /\ Len(program.recipe_section) >= 1
    /\ DOMAIN items_output #  {}
    /\ DOMAIN items_output =
          {program.need_section[k].item : k \in DOMAIN program.need_section}
    /\ \E i \in DOMAIN result.items_needed :
          /\ i \notin DOMAIN items_output
          /\ \E k \in DOMAIN program.recipe_section :
                \E n \in DOMAIN program.recipe_section[k].inputs :
                    program.recipe_section[k].inputs[n].item = i

====
